---- MODULE Spec2Model ----
(***************************************************************************)
(* A model of the AskRiskRepeat ("Rabbit Hole") knowledge-graph app:       *)
(*   - App (src/App.tsx): the React state graphData / loading /            *)
(*     selectedNode / dimensions / activeLegendTypes / filterUnvisited and *)
(*     the handlers that change it;                                        *)
(*   - GraphCanvas (src/unnamed/part_000, earlier variant in               *)
(*     src/types/index.ts): the d3 force simulation the graph is handed    *)
(*     to, i.e. the merge effect, the drag handlers, the filter effect.    *)
(*                                                                         *)
(* Node ids are strings, so that the "-"-joined link keys of the source    *)
(* are computed by real concatenation.  Engine node objects live in a heap *)
(* (a sequence; a handle is an index), because the merge effect reuses     *)
(* objects by identity.  An optional value (fx, fy, x, y, selectedNode)    *)
(* is <<>> when null/undefined and <<v>> when set.  visited is optional in *)
(* the source (undefined is falsy); undefined is modelled as FALSE.        *)
(* Coordinates are integer pixels; alpha is kept in thousandths.           *)
(***************************************************************************)
EXTENDS Integers, Sequences, FiniteSets, TLC

VARIABLES
    graphData,          \* App: useState<GraphState>  {nodes, links}
    loading,            \* App: useState(false)
    request,            \* the generation request in flight (the await)
    selectedNode,       \* App: useState<NodeData | null>, kept as its id
    dimensions,         \* App: useState({width, height})
    activeLegendTypes,  \* App: useState<NodeType[]>([])
    filterUnvisited,    \* App: useState(false)
    mounted,            \* the React tree is mounted (no uncaught error yet)
    heap,               \* engine node objects, by handle
    nodesRef,           \* GraphCanvas: nodesRef.current = simulation.nodes()
    linksRef,           \* GraphCanvas: linksRef.current = link force's links
    alpha,              \* simulation.alpha(), in thousandths
    alphaTarget,        \* simulation.alphaTarget(), in thousandths
    running,            \* the simulation's timer is scheduled
    forceCenter,        \* the point given to d3.forceCenter at creation
    dragBehavior,       \* per handle: the d3.drag() instance on its element
    dragging,           \* handles of the nodes with an active drag gesture
    lastOp              \* the handler that ran last (history)

vars == << graphData, loading, request, selectedNode, dimensions,
           activeLegendTypes, filterUnvisited, mounted, heap, nodesRef,
           linksRef, alpha, alphaTarget, running, forceCenter, dragBehavior,
           dragging, lastOp >>

(***************************************************************************)
(* Bounds of the model.                                                    *)
(***************************************************************************)
MaxNodes == 3        \* graphData.nodes is kept to this length
MaxLinks == 2        \* graphData.links is kept to this length
MaxFragNodes == 2    \* nodes in one generated fragment
MaxFragLinks == 1    \* links in one generated fragment
MaxDrags == 1        \* drag gestures in progress at a time (pointers)

(***************************************************************************)
(* Values.                                                                 *)
(***************************************************************************)
Null == << >>
Some(v) == << v >>

Max(S) == CHOOSE m \in S : \A k \in S : k <= m
Range(s) == { s[i] : i \in DOMAIN s }

\* src/types/index.ts:4-13; the model keeps CORE and two of the seven others.
CORE == "CORE"
LegendTypes == { "ANALOGY", "EXAMPLE" }

\* 'root-' + Date.now() (App.tsx:189); one clock reading is modelled.
RootId == "root-1"
\* the ids a generated fragment may use; "a" and "a-a" make two different
\* (source, target) pairs with one "-"-joined key.
FragIds == { "a", "a-a" }

\* a node of a parsed response (graphSchema: id, label, type, ...; no visited,
\* no x, y)
FragNode(i, t) == [ id |-> i, type |-> t, visited |-> FALSE, x |-> Null, y |-> Null ]
FragLink(s, t, r) == [ source |-> s, target |-> t, relation |-> r ]

SeqsUpTo(S, n) == UNION { [1..k -> S] : k \in 0..n }


(***************************************************************************)
(* App.tsx: the pure parts of the handlers.                                *)
(***************************************************************************)
\* `${source}-${target}` (App.tsx:216, 218) and sourceId + "-" + targetId
\* (GraphCanvas:141, 154)
LinkKey(s, t) == s \o "-" \o t

NodeIds(nodes) == { nodes[i].id : i \in DOMAIN nodes }

\* MarkVisited with the flag flipped instead of set ({ ...n, visited:
\* !n.visited }): the variant visited monotonicity has to tell from the code
MarkVisitedToggle(nodes, id) ==
    [ i \in DOMAIN nodes |->
        IF nodes[i].id = id THEN [ nodes[i] EXCEPT !.visited = ~@ ] ELSE nodes[i] ]

\* prev.nodes.map(n => n.id === node.id ? { ...n, visited: true } : n)
MarkVisited(nodes, id) ==
    [ i \in DOMAIN nodes |->
        IF nodes[i].id = id THEN [ nodes[i] EXCEPT !.visited = TRUE ] ELSE nodes[i] ]

\* a root created unvisited (visited: false): the variant the root's filter
\* rule has to tell from the code
RootNodeUnvisited(dims) ==
    [ id |-> RootId, type |-> CORE, visited |-> FALSE,
      x |-> Some(dims.width \div 2), y |-> Some(dims.height \div 2) ]

\* the rootNode literal of handleInitialQuery
RootNode(dims) ==
    [ id |-> RootId, type |-> CORE, visited |-> TRUE,
      x |-> Some(dims.width \div 2), y |-> Some(dims.height \div 2) ]

\* a handler that adds a root on every query, whatever the graph held
\* (Date.now() gives the later root another id): the variant the one-root
\* rule has to tell from the code
WithRootAlways(data, empty, dims) ==
    LET root == IF empty THEN RootNode(dims)
                         ELSE [ RootNode(dims) EXCEPT !.id = "root-2" ]
    IN  [ nodes |-> << root >> \o data.nodes,
          links |-> data.links \o
                    [ i \in DOMAIN data.nodes |->
                        FragLink(root.id, data.nodes[i].id, "origin") ] ]

\* a first merge that adds the root without its "origin" links
\* (newLinks left as received): the variant the end-to-end first merge has
\* to tell from the code
WithRootUnlinked(data, empty, dims) ==
    IF empty
    THEN [ nodes |-> << RootNode(dims) >> \o data.nodes, links |-> data.links ]
    ELSE data

\* handleInitialQuery, from the parsed response to the arguments of the
\* state update: when the graph was empty at the call, a root is put in front
\* of the nodes and one "origin" link per response node behind the links.
WithRoot(data, empty, dims) ==
    IF empty
    THEN [ nodes |-> << RootNode(dims) >> \o data.nodes,
           links |-> data.links \o
                     [ i \in DOMAIN data.nodes |->
                         FragLink(RootId, data.nodes[i].id, "origin") ] ]
    ELSE data

\* the updater handed to setGraphData by handleInitialQuery
HandleInitialQueryMerge(prev, new) ==
    LET existingIds == NodeIds(prev.nodes)
        filteredNewNodes == SelectSeq(new.nodes, LAMBDA n : n.id \notin existingIds)
        existingLinks ==
            { LinkKey(prev.links[i].source, prev.links[i].target) : i \in DOMAIN prev.links }
        filteredNewLinks ==
            SelectSeq(new.links, LAMBDA l : LinkKey(l.source, l.target) \notin existingLinks)
    IN  [ nodes |-> prev.nodes \o filteredNewNodes,
          links |-> prev.links \o filteredNewLinks ]

\* an expandNode updater that puts the incoming nodes and links first
ExpandNodeMergePrepend(prev, data) ==
    LET existingIds == NodeIds(prev.nodes)
        newNodes == SelectSeq(data.nodes, LAMBDA n : n.id \notin existingIds)
        validLinks ==
            SelectSeq(data.links, LAMBDA l :
                /\ (l.source \in existingIds \/ \E i \in DOMAIN newNodes : newNodes[i].id = l.source)
                /\ (l.target \in existingIds \/ \E i \in DOMAIN newNodes : newNodes[i].id = l.target))
    IN  [ nodes |-> newNodes \o prev.nodes,
          links |-> validLinks \o prev.links ]

\* the updater handed to setGraphData by expandNode
ExpandNodeMerge(prev, data) ==
    LET existingIds == NodeIds(prev.nodes)
        newNodes == SelectSeq(data.nodes, LAMBDA n : n.id \notin existingIds)
        validLinks ==
            SelectSeq(data.links, LAMBDA l :
                /\ (l.source \in existingIds \/ \E i \in DOMAIN newNodes : newNodes[i].id = l.source)
                /\ (l.target \in existingIds \/ \E i \in DOMAIN newNodes : newNodes[i].id = l.target))
    IN  [ nodes |-> prev.nodes \o newNodes,
          links |-> prev.links \o validLinks ]

\* toggleLegendType's updater
ToggleType(prev, type) ==
    IF \E i \in DOMAIN prev : prev[i] = type
    THEN SelectSeq(prev, LAMBDA t : t # type)
    ELSE Append(prev, type)

(***************************************************************************)
(* GraphCanvas: the merge effect ("Update simulation data"), with the d3   *)
(* calls it makes: simulation.nodes(), forceLink.links(), alpha().restart()*)
(***************************************************************************)
\* viewport sizes (window.innerWidth, window.innerHeight)
Viewports == { [ width |-> 800, height |-> 600 ], [ width |-> 840, height |-> 640 ] }
InitialViewport == [ width |-> 800, height |-> 600 ]

\* values of ((Math.random() - 0.5) * 50, (Math.random() - 0.5) * 50), each
\* coordinate in [-25, 25)
Jitters == { [ dx |-> -25, dy |-> 24 ], [ dx |-> 24, dy |-> -25 ] }

\* simulation.alpha(1)
AlphaOne == 1000

\* a link endpoint is a node object (after forceLink resolved it) or an id
Ref(h) == [ ref |-> h ]
Str(s) == [ str |-> s ]
IsObject(e) == "ref" \in DOMAIN e

OldIds == { heap[nodesRef[i]].id : i \in DOMAIN nodesRef }
\* oldNodes.get(id), oldNodes = new Map(nodesRef.current.map(n => [n.id, n])):
\* of two entries with one id the later one is kept
OldNode(id) == nodesRef[Max({ i \in DOMAIN nodesRef : heap[nodesRef[i]].id = id })]

IsNewNode(data, i) == data.nodes[i].id \notin OldIds
NewBefore(data, i) == Cardinality({ j \in 1..i : IsNewNode(data, j) })
NewHandles(data) == (Len(heap) + 1)..(Len(heap) + NewBefore(data, Len(data.nodes)))
JitterChoices(data, jitters) == [ NewHandles(data) -> jitters ]

\* a reuse that also clears the pin (Object.assign(existing, { visited,
\* fx: null, fy: null })): the variant position preservation has to tell
\* from the code
ReuseExistingUnpinned(existing, n) ==
    [ existing EXCEPT !.visited = n.visited, !.fx = Null, !.fy = Null ]

\* Object.assign(existing, { visited: n.visited })
ReuseExisting(existing, n) == [ existing EXCEPT !.visited = n.visited ]

\* a creation with twice the jitter ((Math.random() - 0.5) * 100): the
\* variant the seeding bound has to tell from the code
CreateNodeWide(n, w, h, j) ==
    [ id |-> n.id, type |-> n.type, visited |-> n.visited,
      x |-> (w \div 2) + 2 * j.dx, y |-> (h \div 2) + 2 * j.dy,
      fx |-> Null, fy |-> Null ]

\* a creation that pins the node at its seed ({ ...n, x, y, fx: x, fy: y }):
\* the variant the pin rule has to tell from the code
CreateNodePinned(n, w, h, j) ==
    [ id |-> n.id, type |-> n.type, visited |-> n.visited,
      x |-> (w \div 2) + j.dx, y |-> (h \div 2) + j.dy,
      fx |-> Some((w \div 2) + j.dx), fy |-> Some((h \div 2) + j.dy) ]

\* a creation seeded around the center of the first viewport, whatever the
\* viewport is now: the variant the resize rule has to tell from the code
CreateNodeFirstCenter(n, w, h, j) ==
    [ id |-> n.id, type |-> n.type, visited |-> n.visited,
      x |-> (InitialViewport.width \div 2) + j.dx,
      y |-> (InitialViewport.height \div 2) + j.dy,
      fx |-> Null, fy |-> Null ]

\* { ...n, x: width/2 + jitter, y: height/2 + jitter }
CreateNode(n, w, h, j) ==
    [ id |-> n.id, type |-> n.type, visited |-> n.visited,
      x |-> (w \div 2) + j.dx, y |-> (h \div 2) + j.dy,
      fx |-> Null, fy |-> Null ]

\* newNodes = data.nodes.map(...): the handle of every entry
MergedNodes(data) ==
    [ i \in DOMAIN data.nodes |->
        IF IsNewNode(data, i) THEN Len(heap) + NewBefore(data, i)
                              ELSE OldNode(data.nodes[i].id) ]

\* the node objects after the map: a reused object carries the visited of the
\* last entry mapped onto it, a new one is created with a seeded position
NodeObjects(data, w, h, jit) ==
    [ k \in 1..(Len(heap) + Cardinality(NewHandles(data))) |->
        IF k <= Len(heap)
        THEN LET hits == { i \in DOMAIN data.nodes :
                             ~IsNewNode(data, i) /\ OldNode(data.nodes[i].id) = k }
             IN  IF hits = {} THEN heap[k]
                 ELSE ReuseExisting(heap[k], data.nodes[Max(hits)])
        ELSE LET i == CHOOSE i \in DOMAIN data.nodes :
                        IsNewNode(data, i) /\ Len(heap) + NewBefore(data, i) = k
             IN  CreateNode(data.nodes[i], w, h, jit[k]) ]

\* simulation.nodes(newNodes) -> d3 initializeNodes: a node with a pin is put
\* on its pin (if (node.fx != null) node.x = node.fx; same for y)
InitializeNodes(objs, nodes) ==
    [ k \in DOMAIN objs |->
        IF k \in Range(nodes)
        THEN [ objs[k] EXCEPT
                 !.x = IF objs[k].fx # Null THEN objs[k].fx[1] ELSE @,
                 !.y = IF objs[k].fy # Null THEN objs[k].fy[1] ELSE @ ]
        ELSE objs[k] ]

\* (l.source as NodeData).id + "-" + (l.target as NodeData).id
EngineLinkKey(l) == LinkKey(heap[l.source.ref].id, heap[l.target.ref].id)
OldLinkKeys == { EngineLinkKey(linksRef[i]) : i \in DOMAIN linksRef }
OldLink(key) == linksRef[Max({ i \in DOMAIN linksRef : EngineLinkKey(linksRef[i]) = key })]

\* newLinks = data.links.map(l => existing ? existing : { ...l })
MergedLinks(data) ==
    [ i \in DOMAIN data.links |->
        LET l == data.links[i]
            key == LinkKey(l.source, l.target)
        IN  IF key \in OldLinkKeys THEN OldLink(key)
            ELSE [ source |-> Str(l.source), target |-> Str(l.target),
                   relation |-> l.relation ] ]

\* d3 forceLink initialize(): nodeById = new Map(nodes.map(d => [id(d), d]))
\* with id = d => d.id; 0 stands for "not in the map"
NodeById(nodes, objs, id) ==
    LET at == { i \in DOMAIN nodes : objs[nodes[i]].id = id }
    IN  IF at = {} THEN 0 ELSE nodes[Max(at)]

\* if (typeof link.source !== "object") link.source = find(nodeById, link.source)
Resolve(e, nodes, objs) ==
    IF IsObject(e) \/ NodeById(nodes, objs, e.str) = 0 THEN e
    ELSE Ref(NodeById(nodes, objs, e.str))

Resolvable(l, nodes, objs) ==
    /\ IsObject(Resolve(l.source, nodes, objs))
    /\ IsObject(Resolve(l.target, nodes, objs))

\* find() throws "node not found" on the first endpoint that is not in the map
LinksThrow(links, nodes, objs) ==
    \E i \in DOMAIN links : ~Resolvable(links[i], nodes, objs)

\* a link force that takes the array without resolving the endpoints: the
\* variant the atomic merge has to tell from the code
ForceLinkUnresolved(links, nodes, objs) == links

\* forceLink.links(newLinks): the links in order, each endpoint resolved, up to
\* the endpoint find() threw at
ForceLinkInitialize(links, nodes, objs) ==
    LET bad == { i \in DOMAIN links : ~Resolvable(links[i], nodes, objs) }
        stop == IF bad = {} THEN Len(links) + 1
                ELSE CHOOSE i \in bad : \A j \in bad : i <= j
    IN  [ i \in DOMAIN links |->
            IF i < stop
            THEN [ links[i] EXCEPT !.source = Resolve(@, nodes, objs),
                                   !.target = Resolve(@, nodes, objs) ]
            ELSE IF i = stop
            THEN [ links[i] EXCEPT
                     !.source = Resolve(@, nodes, objs),
                     !.target = IF IsObject(Resolve(links[i].source, nodes, objs))
                                THEN Resolve(@, nodes, objs) ELSE @ ]
            ELSE links[i] ]

\* a dependency list that also names the filter state ([data, width, height,
\* activeTypes, filterUnvisited]): the variant filter purity has to tell from
\* the code
MergeEffectDepsWithFilter(dataChanged, widthChanged, heightChanged, filterChanged) ==
    dataChanged \/ widthChanged \/ heightChanged \/ filterChanged

\* the dependency list of the merge effect: [data, width, height]
MergeEffectDeps(dataChanged, widthChanged, heightChanged, filterChanged) ==
    dataChanged \/ widthChanged \/ heightChanged

\* nodeEnter.call(d3.drag()...): every run of the effect makes one drag
\* behaviour and puts it on the elements of the nodes that enter in that run
\* (n is the heap size after the run; a behaviour is named by the first
\* handle that entered with it)
EnterNodes(n) ==
    [ k \in 1..n |-> IF k <= Len(dragBehavior) THEN dragBehavior[k]
                                               ELSE Len(dragBehavior) + 1 ]

\* the merge effect up to simulation.alpha(1).restart().  An exception thrown
\* by forceLink.links() leaves the effect there; React then unmounts the tree
\* (no error boundary), and the cleanup of the first effect stops the
\* simulation.
MergeEffect(data, dims, jit) ==
    LET newNodes == MergedNodes(data)
        objs == InitializeNodes(NodeObjects(data, dims.width, dims.height, jit), newNodes)
        newLinks == MergedLinks(data)
    IN  /\ heap' = objs
        /\ nodesRef' = newNodes
        /\ linksRef' = ForceLinkInitialize(newLinks, newNodes, objs)
        /\ IF LinksThrow(newLinks, newNodes, objs)
           THEN /\ mounted' = FALSE
                /\ running' = FALSE
                /\ alpha' = alpha
           ELSE /\ mounted' = mounted
                /\ running' = TRUE
                /\ alpha' = AlphaOne
        /\ dragBehavior' = EnterNodes(Len(objs))
        /\ UNCHANGED << alphaTarget, forceCenter, dragging >>

EngineUnchanged ==
    UNCHANGED << mounted, heap, nodesRef, linksRef, alpha, alphaTarget, running,
                 forceCenter, dragBehavior, dragging >>

\* one commit of App: the new props reach GraphCanvas and the effects whose
\* dependencies changed run
Commit(data, dataChanged, dims, filterChanged, jit) ==
    IF MergeEffectDeps(dataChanged, dims.width # dimensions.width,
                       dims.height # dimensions.height, filterChanged)
    THEN MergeEffect(data, dims, jit)
    ELSE EngineUnchanged

(***************************************************************************)
(* GraphCanvas: the filter effect ("Filtering Logic").  Opacities are in   *)
(* hundredths (1 -> 100, 0.6 -> 60, 0.1 -> 10).                            *)
(***************************************************************************)
Includes(types, t) == \E i \in DOMAIN types : types[i] = t

\* .style("opacity", d => ...) on .node
NodeOpacity(d, activeTypes, unvisitedOnly) ==
    LET isTypeFiltering == Len(activeTypes) > 0
        isVisitedFiltering == unvisitedOnly
        isFiltering == isTypeFiltering \/ isVisitedFiltering
        typeMatch == ~isTypeFiltering \/ Includes(activeTypes, d.type)
        visitedMatch == ~isVisitedFiltering \/ ~d.visited
    IN  IF ~isFiltering THEN 100
        ELSE IF typeMatch /\ visitedMatch THEN 100 ELSE 10

\* pointer events left on for every node: the variant the node filter rule
\* has to tell from the code
NodePointerEventsAll(d, activeTypes, unvisitedOnly) == "all"

\* .style("pointer-events", d => ...) on .node
NodePointerEvents(d, activeTypes, unvisitedOnly) ==
    LET isTypeFiltering == Len(activeTypes) > 0
        isVisitedFiltering == unvisitedOnly
        isFiltering == isTypeFiltering \/ isVisitedFiltering
        typeMatch == ~isTypeFiltering \/ Includes(activeTypes, d.type)
        visitedMatch == ~isVisitedFiltering \/ ~d.visited
    IN  IF ~isFiltering THEN "all"
        ELSE IF typeMatch /\ visitedMatch THEN "all" ELSE "none"

\* a link dimmed only when both endpoints fail (!sActive && !tActive): the
\* variant the link visibility rule has to tell from the code
LinkOpacityBoth(s, t, activeTypes, unvisitedOnly) ==
    LET isTypeFiltering == Len(activeTypes) > 0
        isVisitedFiltering == unvisitedOnly
        isFiltering == isTypeFiltering \/ isVisitedFiltering
        sActive == (~isTypeFiltering \/ Includes(activeTypes, s.type))
                   /\ (~isVisitedFiltering \/ ~s.visited)
        tActive == (~isTypeFiltering \/ Includes(activeTypes, t.type))
                   /\ (~isVisitedFiltering \/ ~t.visited)
    IN  IF ~isFiltering THEN 60
        ELSE IF ~sActive /\ ~tActive THEN 10 ELSE 60

\* .attr("opacity", d => ...) on .link; s and t are the link's endpoint objects
LinkOpacity(s, t, activeTypes, unvisitedOnly) ==
    LET isTypeFiltering == Len(activeTypes) > 0
        isVisitedFiltering == unvisitedOnly
        isFiltering == isTypeFiltering \/ isVisitedFiltering
        sActive == (~isTypeFiltering \/ Includes(activeTypes, s.type))
                   /\ (~isVisitedFiltering \/ ~s.visited)
        tActive == (~isTypeFiltering \/ Includes(activeTypes, t.type))
                   /\ (~isVisitedFiltering \/ ~t.visited)
    IN  IF ~isFiltering THEN 60
        ELSE IF ~sActive \/ ~tActive THEN 10 ELSE 60

\* the node accepts clicks and drag gestures under the current filter
Interactive(h) ==
    NodePointerEvents(heap[h], activeLegendTypes, filterUnvisited) = "all"

(***************************************************************************)
(* The solver step of d3.forceSimulation (the library's timer callback),   *)
(* as section 4.2 of the specification describes it: alpha moves           *)
(* geometrically to alphaTarget, a free node is moved by the forces, a     *)
(* pinned node is put on its pin, and the timer stops once alpha is below  *)
(* the threshold.  alpha is in thousandths; the geometric rate is coarser  *)
(* than d3's default so that the schedule fits the model, and the          *)
(* displacement of a free node is abstracted to the pull of the centering  *)
(* force toward forceCenter.                                               *)
(***************************************************************************)
AlphaDecayDen == 10
Pull == 50
\* alphaMin = 0.001
AlphaMin == 1
\* simulation.alphaTarget(0.3) in dragstarted
DragAlphaTarget == 300

\* a step that leaves alpha where it is (alphaDecay = 0): the variant
\* convergence has to tell from the cooling schedule
AlphaStepNoDecay(a, target) == a

\* alpha += (alphaTarget - alpha) * alphaDecay, the part kept being
\* 1 / AlphaDecayDen of the distance to the target
AlphaStep(a, target) == target + ((a - target) \div AlphaDecayDen)

\* one coordinate of a free node after a tick: up to Pull pixels nearer to c
ForceStep(p, c) ==
    IF p < c THEN (IF p + Pull > c THEN c ELSE p + Pull)
             ELSE (IF p - Pull < c THEN c ELSE p - Pull)

\* a step that integrates the forces on every node, pinned or not: the
\* variant the pin override has to tell from the solver step
TickNodeFree(d) ==
    [ d EXCEPT !.x = ForceStep(d.x, forceCenter.x),
               !.y = ForceStep(d.y, forceCenter.y) ]

\* one node in a tick: a free coordinate is integrated, a pinned one is set to
\* its pin
TickNode(d) ==
    [ d EXCEPT !.x = IF d.fx = Null THEN ForceStep(d.x, forceCenter.x) ELSE d.fx[1],
               !.y = IF d.fy = Null THEN ForceStep(d.y, forceCenter.y) ELSE d.fy[1] ]

(***************************************************************************)
(* Inputs.                                                                 *)
(***************************************************************************)
FragNodeVals == { FragNode(i, "ANALOGY") : i \in FragIds } \cup { FragNode("a", "EXAMPLE") }
FragLinkVals == { FragLink("a", t, "rel") : t \in FragIds } \cup { FragLink("a-a", "a", "rel") }

\* the parsed responses: { nodes: [...], links: [...] }
Fragments ==
    { [ nodes |-> ns, links |-> ls ] :
        ns \in SeqsUpTo(FragNodeVals, MaxFragNodes),
        ls \in SeqsUpTo(FragLinkVals, MaxFragLinks) }

\* pointer positions of a drag gesture (event.x, event.y)
Pointers == { [ x |-> 440, y |-> 280 ] }

NoRequest == [ kind |-> "none", empty |-> FALSE, dims |-> InitialViewport ]

WithinBounds(g) == Len(g.nodes) <= MaxNodes /\ Len(g.links) <= MaxLinks

(***************************************************************************)
(* Init: App mounted with its useState defaults; GraphCanvas has created   *)
(* the simulation (alpha 1, timer started) and run the merge effect once   *)
(* on the empty graph.                                                     *)
(***************************************************************************)
Init ==
    /\ graphData = [ nodes |-> << >>, links |-> << >> ]
    /\ loading = FALSE
    /\ request = NoRequest
    /\ selectedNode = Null
    /\ dimensions = InitialViewport
    /\ activeLegendTypes = << >>
    /\ filterUnvisited = FALSE
    /\ mounted = TRUE
    /\ heap = << >>
    /\ nodesRef = << >>
    /\ linksRef = << >>
    /\ alpha = AlphaOne
    /\ alphaTarget = 0
    /\ running = TRUE
    /\ forceCenter = [ x |-> InitialViewport.width \div 2, y |-> InitialViewport.height \div 2 ]
    /\ dragBehavior = << >>
    /\ dragging = {}
    /\ lastOp = "mount"

(***************************************************************************)
(* App.tsx: the handlers.                                                  *)
(***************************************************************************)
\* handleInitialQuery up to the await.  The form and the suggestion buttons
\* are disabled or hidden while loading.
StartInitialQuery ==
    /\ mounted /\ ~loading
    /\ loading' = TRUE
    /\ selectedNode' = Null
    /\ request' = [ kind |-> "initial", empty |-> (Len(graphData.nodes) = 0),
                    dims |-> IF Len(graphData.nodes) = 0 THEN dimensions
                                                         ELSE InitialViewport ]
    /\ lastOp' = "startInitial"
    /\ EngineUnchanged
    /\ UNCHANGED << graphData, dimensions, activeLegendTypes, filterUnvisited >>

\* handleInitialQuery after the await, the response parsed into one of the
\* given fragments
ResolveInitial(fragments, jitters) ==
    /\ mounted /\ request.kind = "initial"
    /\ \E next \in { HandleInitialQueryMerge(graphData,
                         WithRoot(data, request.empty, request.dims)) :
                     data \in fragments } :
           /\ WithinBounds(next)
           /\ graphData' = next
           /\ \E jit \in JitterChoices(next, jitters) :
                  Commit(next, TRUE, dimensions, FALSE, jit)
    /\ loading' = FALSE
    /\ request' = NoRequest
    /\ lastOp' = "initial"
    /\ UNCHANGED << selectedNode, dimensions, activeLegendTypes, filterUnvisited >>

\* a catch without the finally block (loading stays as it was): the variant
\* the end of loading has to tell from the code
RejectResponseNoFinally ==
    /\ mounted /\ request.kind # "none"
    /\ request' = NoRequest
    /\ lastOp' = "reject"
    /\ EngineUnchanged
    /\ UNCHANGED << graphData, loading, selectedNode, dimensions, activeLegendTypes,
                    filterUnvisited >>

\* the catch/finally of both handlers: the request failed or JSON.parse threw
RejectResponse ==
    /\ mounted /\ request.kind # "none"
    /\ loading' = FALSE
    /\ request' = NoRequest
    /\ lastOp' = "reject"
    /\ EngineUnchanged
    /\ UNCHANGED << graphData, selectedNode, dimensions, activeLegendTypes, filterUnvisited >>

\* a click handler whose update of the graph is dropped while a request is in
\* flight: the variant the click/merge interleaving has to tell from the code
NodeClickLostWhileLoading(h) ==
    /\ mounted /\ h \in Range(nodesRef) /\ Interactive(h)
    /\ selectedNode' = Some(heap[h].id)
    /\ LET next == IF loading THEN graphData
                   ELSE [ graphData EXCEPT !.nodes = MarkVisited(@, heap[h].id) ]
       IN  /\ graphData' = next
           /\ \E jit \in JitterChoices(next, Jitters) :
                  Commit(next, TRUE, dimensions, FALSE, jit)
    /\ lastOp' = "click"
    /\ UNCHANGED << loading, request, dimensions, activeLegendTypes, filterUnvisited >>

\* handleNodeClick, called by the click listener of the node's element
NodeClick(h) ==
    /\ mounted /\ h \in Range(nodesRef) /\ Interactive(h)
    /\ selectedNode' = Some(heap[h].id)
    /\ LET next == [ graphData EXCEPT !.nodes = MarkVisited(@, heap[h].id) ]
       IN  /\ graphData' = next
           /\ \E jit \in JitterChoices(next, Jitters) :
                  Commit(next, TRUE, dimensions, FALSE, jit)
    /\ lastOp' = "click"
    /\ UNCHANGED << loading, request, dimensions, activeLegendTypes, filterUnvisited >>

\* expandNode behind a button that is not disabled while loading: the variant
\* the single request in flight has to tell from the code
StartExpandWhileLoading ==
    /\ mounted /\ selectedNode # Null
    /\ loading' = TRUE
    /\ LET next == [ graphData EXCEPT !.nodes = MarkVisited(@, selectedNode[1]) ]
       IN  /\ graphData' = next
           /\ \E jit \in JitterChoices(next, Jitters) :
                  Commit(next, TRUE, dimensions, FALSE, jit)
    /\ request' = [ kind |-> "expand", empty |-> FALSE, dims |-> InitialViewport ]
    /\ lastOp' = "startExpand"
    /\ UNCHANGED << selectedNode, dimensions, activeLegendTypes, filterUnvisited >>

\* expandNode(selectedNode) up to the await ("Explore this branch", disabled
\* while loading)
StartExpand ==
    /\ mounted /\ ~loading /\ selectedNode # Null
    /\ loading' = TRUE
    /\ LET next == [ graphData EXCEPT !.nodes = MarkVisited(@, selectedNode[1]) ]
       IN  /\ graphData' = next
           /\ \E jit \in JitterChoices(next, Jitters) :
                  Commit(next, TRUE, dimensions, FALSE, jit)
    /\ request' = [ kind |-> "expand", empty |-> FALSE, dims |-> InitialViewport ]
    /\ lastOp' = "startExpand"
    /\ UNCHANGED << selectedNode, dimensions, activeLegendTypes, filterUnvisited >>

\* expandNode after the await
ResolveExpand(fragments, jitters) ==
    /\ mounted /\ request.kind = "expand"
    /\ \E next \in { ExpandNodeMerge(graphData, data) : data \in fragments } :
           /\ WithinBounds(next)
           /\ graphData' = next
           /\ \E jit \in JitterChoices(next, jitters) :
                  Commit(next, TRUE, dimensions, FALSE, jit)
    /\ loading' = FALSE
    /\ request' = NoRequest
    /\ lastOp' = "expand"
    /\ UNCHANGED << selectedNode, dimensions, activeLegendTypes, filterUnvisited >>

\* a legend button (shown for every type but CORE once the graph is not empty)
ToggleLegendType(type) ==
    /\ mounted /\ Len(graphData.nodes) > 0
    /\ activeLegendTypes' = ToggleType(activeLegendTypes, type)
    /\ Commit(graphData, FALSE, dimensions, TRUE, << >>)
    /\ lastOp' = "toggleType"
    /\ UNCHANGED << graphData, loading, request, selectedNode, dimensions, filterUnvisited >>

\* the "New Stuff Only" button
ToggleUnvisited ==
    /\ mounted /\ Len(graphData.nodes) > 0
    /\ filterUnvisited' = ~filterUnvisited
    /\ Commit(graphData, FALSE, dimensions, TRUE, << >>)
    /\ lastOp' = "toggleUnvisited"
    /\ UNCHANGED << graphData, loading, request, selectedNode, dimensions, activeLegendTypes >>

\* the "Reset" button, shown while a filter is active
ResetFilters ==
    /\ mounted /\ Len(graphData.nodes) > 0
    /\ Len(activeLegendTypes) > 0 \/ filterUnvisited
    /\ activeLegendTypes' = << >>
    /\ filterUnvisited' = FALSE
    /\ Commit(graphData, FALSE, dimensions, TRUE, << >>)
    /\ lastOp' = "reset"
    /\ UNCHANGED << graphData, loading, request, selectedNode, dimensions >>

\* handleResize
Resize(dims) ==
    /\ mounted /\ dims # dimensions
    /\ dimensions' = dims
    /\ \E jit \in JitterChoices(graphData, Jitters) :
           Commit(graphData, FALSE, dims, FALSE, jit)
    /\ lastOp' = "resize"
    /\ UNCHANGED << graphData, loading, request, selectedNode, activeLegendTypes, filterUnvisited >>

(***************************************************************************)
(* GraphCanvas: the solver step and the drag handlers.                     *)
(***************************************************************************)
\* one step of the simulation's timer
Tick ==
    /\ mounted /\ running
    /\ alpha' = AlphaStep(alpha, alphaTarget)
    /\ heap' = [ k \in DOMAIN heap |->
                   IF k \in Range(nodesRef) THEN TickNode(heap[k]) ELSE heap[k] ]
    /\ running' = ~(alpha' < AlphaMin)
    /\ lastOp' = "tick"
    /\ UNCHANGED << graphData, loading, request, selectedNode, dimensions,
                    activeLegendTypes, filterUnvisited, mounted, nodesRef, linksRef,
                    alphaTarget, forceCenter, dragBehavior, dragging >>

\* event.active: the gestures in progress on the same d3.drag() instance
ActiveOn(b, S) == Cardinality({ k \in S : dragBehavior[k] = b })

\* dragstarted(event, d)
DragStartedAmong(h, pointers) ==
    /\ mounted /\ h \in Range(nodesRef) /\ h \notin dragging /\ Interactive(h)
    /\ Cardinality(dragging) < pointers
    /\ IF ActiveOn(dragBehavior[h], dragging) = 0
       THEN alphaTarget' = DragAlphaTarget /\ running' = TRUE
       ELSE UNCHANGED << alphaTarget, running >>
    /\ heap' = [ heap EXCEPT ![h].fx = Some(heap[h].x), ![h].fy = Some(heap[h].y) ]
    /\ dragging' = dragging \cup { h }
    /\ lastOp' = "dragstart"
    /\ UNCHANGED << graphData, loading, request, selectedNode, dimensions,
                    activeLegendTypes, filterUnvisited, mounted, nodesRef, linksRef,
                    alpha, forceCenter, dragBehavior >>

\* A drag gesture of the single mouse pointer.
DragStarted(h) == DragStartedAmong(h, MaxDrags)

\* dragged(event, d)
Dragged(h, p) ==
    /\ mounted /\ h \in dragging
    /\ heap' = [ heap EXCEPT ![h].fx = Some(p.x), ![h].fy = Some(p.y) ]
    /\ lastOp' = "drag"
    /\ UNCHANGED << graphData, loading, request, selectedNode, dimensions,
                    activeLegendTypes, filterUnvisited, mounted, nodesRef, linksRef,
                    alpha, alphaTarget, running, forceCenter, dragBehavior, dragging >>

\* dragended that leaves the alpha target where the gesture put it
DragEndedHot(h) ==
    /\ mounted /\ h \in dragging
    /\ UNCHANGED alphaTarget
    /\ heap' = [ heap EXCEPT ![h].fx = Null, ![h].fy = Null ]
    /\ dragging' = dragging \ { h }
    /\ lastOp' = "dragend"
    /\ UNCHANGED << graphData, loading, request, selectedNode, dimensions,
                    activeLegendTypes, filterUnvisited, mounted, nodesRef, linksRef,
                    alpha, running, forceCenter, dragBehavior >>

\* dragended(event, d)
DragEnded(h) ==
    /\ mounted /\ h \in dragging
    /\ IF ActiveOn(dragBehavior[h], dragging \ { h }) = 0
       THEN alphaTarget' = 0
       ELSE UNCHANGED alphaTarget
    /\ heap' = [ heap EXCEPT ![h].fx = Null, ![h].fy = Null ]
    /\ dragging' = dragging \ { h }
    /\ lastOp' = "dragend"
    /\ UNCHANGED << graphData, loading, request, selectedNode, dimensions,
                    activeLegendTypes, filterUnvisited, mounted, nodesRef, linksRef,
                    alpha, running, forceCenter, dragBehavior >>

\* the shapes of a parsed response that is not a node/link collection:
\* data.nodes undefined, data.links undefined
MalformedShapes == { "noNodes", "noLinks" }

\* the TypeError is raised in the try block of the handler: only
\* handleInitialQuery on an empty graph touches the arrays before
\* setGraphData (newNodes.map, [...newLinks, ...linksToRoot])
HandlerThrows(shape, kind, empty) == kind = "initial" /\ empty

\* both handlers after the await, the response parsed into a value without
\* a nodes or a links array.  Where the handler does not throw, the updater
\* handed to setGraphData does (newNodes.filter, newLinks.filter,
\* data.nodes.filter, data.links.filter); React runs the updater while
\* rendering, outside the try block, and the uncaught error unmounts the tree.
ResolveMalformed(shape) ==
    /\ mounted /\ request.kind # "none"
    /\ loading' = FALSE
    /\ request' = NoRequest
    /\ lastOp' = "malformed"
    /\ IF HandlerThrows(shape, request.kind, request.empty)
       THEN EngineUnchanged
       ELSE /\ mounted' = FALSE
            /\ running' = FALSE
            /\ UNCHANGED << heap, nodesRef, linksRef, alpha, alphaTarget,
                            forceCenter, dragBehavior, dragging >>
    /\ UNCHANGED << graphData, selectedNode, dimensions, activeLegendTypes, filterUnvisited >>

Handles == 1..MaxNodes

\* the jitter of the merge-centred specifications: one draw
OneJitter == { [ dx |-> -25, dy |-> 24 ] }

\* the fragments of the solver-centred specification: a node alone, a node
\* with a link from the root, and a link between two ids no node carries
SimFragments ==
    { [ nodes |-> << FragNode("a", "ANALOGY") >>, links |-> << >> ],
      [ nodes |-> << FragNode("a", "EXAMPLE") >>,
        links |-> << FragLink(RootId, "a", "rel") >> ],
      [ nodes |-> << >>, links |-> << FragLink("a", "a-a", "rel") >> ] }

\* the fragments of the filter-centred specification: also a second legend
\* node with a link between two legend nodes
FilterFragments ==
    SimFragments \cup
    { [ nodes |-> << FragNode("a-a", "ANALOGY") >>,
        links |-> << FragLink("a", "a-a", "rel") >> ] }

(***************************************************************************)
(* Spec: App's handlers and the merge effect over every fragment of the    *)
(* bounds (queries, clicks, expansions, failed requests).                  *)
(***************************************************************************)
Next ==
    \/ StartInitialQuery
    \/ ResolveInitial(Fragments, OneJitter)
    \/ RejectResponse
    \/ \E shape \in MalformedShapes : ResolveMalformed(shape)
    \/ \E h \in Handles : NodeClick(h)
    \/ StartExpand
    \/ ResolveExpand(Fragments, OneJitter)

Spec == Init /\ [][Next]_vars

(***************************************************************************)
(* SimSpec: the solver (ticks, drag gestures, resizes) with the handlers   *)
(* that change the graph under it, over a small set of fragments.          *)
(***************************************************************************)
SimNext ==
    \/ StartInitialQuery
    \/ ResolveInitial(SimFragments, OneJitter)
    \/ \E h \in Handles : NodeClick(h)
    \/ \E dims \in Viewports : Resize(dims)
    \/ Tick
    \/ \E h \in Handles : DragStarted(h)
    \/ \E h \in Handles, p \in Pointers : Dragged(h, p)
    \/ \E h \in Handles : DragEnded(h)

SimSpec == Init /\ [][SimNext]_vars

(***************************************************************************)
(* FilterSpec: the legend filters over a graph that is built, clicked,     *)
(* expanded and ticked under them.                                         *)
(***************************************************************************)
FilterNext ==
    \/ StartInitialQuery
    \/ ResolveInitial(FilterFragments, OneJitter)
    \/ \E h \in Handles : NodeClick(h)
    \/ StartExpand
    \/ ResolveExpand(FilterFragments, OneJitter)
    \/ \E type \in LegendTypes : ToggleLegendType(type)
    \/ ToggleUnvisited
    \/ ResetFilters
    \/ Tick

FilterSpec == Init /\ [][FilterNext]_vars

(***************************************************************************)
(* CoolSpec: SimSpec with the timer of the simulation firing as long as    *)
(* the simulation runs (d3.timer: one callback per animation frame).       *)
(***************************************************************************)
CoolSpec == Init /\ [][SimNext]_vars /\ WF_vars(Tick)

(***************************************************************************)
(* LoadSpec: the requests of App (queries, expansions, clicks between      *)
(* them) with every request completing: the promise of generateContent     *)
(* settles, it resolves or rejects.                                        *)
(***************************************************************************)
Completes ==
    \/ ResolveInitial(FilterFragments, OneJitter)
    \/ ResolveExpand(FilterFragments, OneJitter)
    \/ RejectResponse
    \/ \E shape \in MalformedShapes : ResolveMalformed(shape)

LoadNext ==
    \/ StartInitialQuery
    \/ \E h \in Handles : NodeClick(h)
    \/ StartExpand
    \/ Completes

LoadSpec == Init /\ [][LoadNext]_vars /\ WF_vars(Completes)

(***************************************************************************)
(* PinSpec: drag gestures among everything else that reaches the engine:   *)
(* merges, ticks, clicks, filter changes and resizes, over one fragment.   *)
(***************************************************************************)
PinFragments == { [ nodes |-> << FragNode("a", "ANALOGY") >>, links |-> << >> ] }

PinNext ==
    \/ StartInitialQuery
    \/ ResolveInitial(PinFragments, OneJitter)
    \/ \E h \in Handles : NodeClick(h)
    \/ \E dims \in Viewports : Resize(dims)
    \/ ToggleUnvisited
    \/ ResetFilters
    \/ Tick
    \/ \E h \in Handles : DragStarted(h)
    \/ \E h \in Handles, p \in Pointers : Dragged(h, p)
    \/ \E h \in Handles : DragEnded(h)

PinSpec == Init /\ [][PinNext]_vars

(***************************************************************************)
(* TouchSpec: the solver under a touch screen, where several fingers hold  *)
(* several nodes at once, over a graph built by successive queries so that *)
(* its nodes entered in different runs of the merge effect.                *)
(***************************************************************************)
MaxTouches == 2      \* fingers on the screen at a time

TouchFragments ==
    { [ nodes |-> << FragNode(i, "ANALOGY") >>, links |-> << >> ] : i \in FragIds }

\* dragstarted(event, d) of a touchstart
TouchStarted(h) == DragStartedAmong(h, MaxTouches)

TouchNext ==
    \/ StartInitialQuery
    \/ ResolveInitial(TouchFragments, OneJitter)
    \/ Tick
    \/ \E h \in Handles : TouchStarted(h)
    \/ \E h \in Handles, p \in Pointers : Dragged(h, p)
    \/ \E h \in Handles : DragEnded(h)

TouchSpec == Init /\ [][TouchNext]_vars

(***************************************************************************)
(* The claims.                                                             *)
(***************************************************************************)
\* the node count and the link count of a graph
Counts(g) == << Len(g.nodes), Len(g.links) >>

\* the handlers that hand new graph data to the engine
MergeOps == { "initial", "expand" }

(* C1: idempotent re-merge.  Whenever a fragment f has just been merged    *)
(* (through the initial-query merge or through the expansion merge),       *)
(* merging f a second time through the same merge leaves the node count    *)
(* and the link count of the graph as they are after the first merge.      *)
C1_IdempotentRemerge ==
    [][ /\ lastOp' = "initial" =>
            \A f \in Fragments :
                graphData' = HandleInitialQueryMerge(graphData,
                                 WithRoot(f, request.empty, request.dims))
                => Counts(HandleInitialQueryMerge(graphData',
                              WithRoot(f, Len(graphData'.nodes) = 0, dimensions')))
                   = Counts(graphData')
        /\ lastOp' = "expand" =>
            \A f \in Fragments :
                graphData' = ExpandNodeMerge(graphData, f)
                => Counts(ExpandNodeMerge(graphData', f)) = Counts(graphData')
      ]_vars

(* C2: dangling-link elision.  After a merge (initial query or expansion)  *)
(* every link of the graph has its source id and its target id among the   *)
(* ids of the graph's nodes, and every link the engine holds has both      *)
(* endpoints resolved to a node object.                                    *)
C2_NoDanglingLink ==
    lastOp \in MergeOps =>
        /\ \A i \in DOMAIN graphData.links :
               /\ graphData.links[i].source \in NodeIds(graphData.nodes)
               /\ graphData.links[i].target \in NodeIds(graphData.nodes)
        /\ \A i \in DOMAIN linksRef :
               IsObject(linksRef[i].source) /\ IsObject(linksRef[i].target)

\* the engine's node objects that carry the id
EngineCopies(h, refs, id) == { refs[i] : i \in { j \in DOMAIN refs : h[refs[j]].id = id } }

(* C3: visited monotonicity.  In every step (merge, click, filter change,  *)
(* tick), a node of the application graph that is visited stays in the     *)
(* graph and every node with its id is visited afterwards, and an engine   *)
(* node object that is visited stays visited, as does every object the     *)
(* engine holds for its id afterwards.                                     *)
C3_VisitedMonotone ==
    [][ /\ \A i \in DOMAIN graphData.nodes :
               graphData.nodes[i].visited =>
                   /\ i \in DOMAIN graphData'.nodes
                   /\ graphData'.nodes[i].id = graphData.nodes[i].id
                   /\ \A j \in DOMAIN graphData'.nodes :
                          graphData'.nodes[j].id = graphData.nodes[i].id
                          => graphData'.nodes[j].visited
        /\ \A k \in Range(nodesRef) :
               heap[k].visited =>
                   /\ heap'[k].visited
                   /\ EngineCopies(heap', nodesRef', heap[k].id) # {}
                   /\ \A c \in EngineCopies(heap', nodesRef', heap[k].id) :
                          heap'[c].visited
      ]_vars

\* a clicked node is still visited, in the graph and in the engine, after an
\* expansion merged under an active unvisited-only filter
C3_Witness ==
    /\ lastOp = "expand" /\ filterUnvisited
    /\ \E i \in DOMAIN graphData.nodes :
           /\ graphData.nodes[i].id # RootId
           /\ graphData.nodes[i].visited
           /\ \E c \in EngineCopies(heap, nodesRef, graphData.nodes[i].id) :
                  heap[c].visited

\* the handlers whose commit runs the merge effect of the engine
EngineMergeOps == { "initial", "expand", "startExpand", "click", "resize" }

C5_MergeReheats ==
    lastOp \in EngineMergeOps => alpha = AlphaOne /\ running

(* C6: convergence.  With no drag in progress, every tick taken while      *)
(* alpha is at or above the stop threshold strictly lowers alpha; and in   *)
(* every run in which the merges have set alpha to 1 (none of them raised, *)
(* so the simulation is still mounted) and from some point on no handler   *)
(* but the tick runs (no further merge) and no drag is in progress, alpha  *)
(* is eventually below the threshold and the solver has stopped ticking    *)
(* for good.                                                               *)
C6_Convergence ==
    /\ [][ lastOp' = "tick" /\ dragging = {} /\ alpha >= AlphaMin
            => alpha' < alpha ]_vars
    /\ ( <>[][lastOp' = "tick"]_vars /\ <>[](mounted /\ dragging = {}) )
           => <>[](alpha < AlphaMin /\ ~running)

\* the solver has cooled from a merge all the way down and stopped, with a
\* graph in the engine
C6_Witness ==
    /\ lastOp = "tick" /\ mounted /\ dragging = {}
    /\ Len(nodesRef) > 1
    /\ alpha < AlphaMin /\ ~running

(* C7: pin override.  A tick leaves every pinned node of the simulation    *)
(* exactly on its pin (x = fx, y = fy) and leaves the pin as it is, however*)
(* many ticks and merges came before; a node that is not pinned and is off *)
(* the centre is moved by the tick.                                        *)
C7_PinOverride ==
    [][ lastOp' = "tick" =>
            \A k \in Range(nodesRef) :
                /\ heap'[k].fx = heap[k].fx /\ heap'[k].fy = heap[k].fy
                /\ heap[k].fx # Null => heap'[k].x = heap[k].fx[1]
                /\ heap[k].fy # Null => heap'[k].y = heap[k].fy[1]
                /\ ( /\ heap[k].fx = Null /\ heap[k].fy = Null
                     /\ << heap[k].x, heap[k].y >> # << forceCenter.x, forceCenter.y >> )
                   => << heap'[k].x, heap'[k].y >> # << heap[k].x, heap[k].y >>
      ]_vars

\* after a tick, a node dragged to the pointer is on its pin while another
\* node, free, has been moved to the centre
C7_Witness ==
    /\ lastOp = "tick"
    /\ \E k \in Range(nodesRef), p \in Pointers :
           /\ heap[k].fx = Some(p.x) /\ heap[k].fy = Some(p.y)
           /\ heap[k].x = p.x /\ heap[k].y = p.y
    /\ \E k \in Range(nodesRef) :
           /\ heap[k].fx = Null
           /\ heap[k].x = forceCenter.x /\ heap[k].y = forceCenter.y

\* the node match rule of the filter as the specification states it
MatchRule(d) ==
    /\ Len(activeLegendTypes) = 0 \/ Includes(activeLegendTypes, d.type)
    /\ ~filterUnvisited \/ ~d.visited

\* the handlers that change the filter state
FilterOps == { "toggleType", "toggleUnvisited", "reset" }

(* C8: node filter rule.  In every state, every node of the simulation is  *)
(* drawn at full opacity and accepts pointer events if (no category is     *)
(* active or its category is active) and (unvisited-only is off or it is   *)
(* not visited); otherwise it is dimmed and takes no pointer events.  With *)
(* both filters off every node is at full opacity and takes pointer events.*)
C8_NodeFilterRule ==
    mounted =>
        \A k \in Range(nodesRef) :
            /\ NodeOpacity(heap[k], activeLegendTypes, filterUnvisited)
                   = IF MatchRule(heap[k]) THEN 100 ELSE 10
            /\ NodePointerEvents(heap[k], activeLegendTypes, filterUnvisited)
                   = IF MatchRule(heap[k]) THEN "all" ELSE "none"
            /\ (Len(activeLegendTypes) = 0 /\ ~filterUnvisited) => Interactive(k)

\* after a filter change with a category active, one node is shown in full
\* and takes pointer events while another is dimmed and takes none
C8_Witness ==
    /\ lastOp \in FilterOps /\ mounted /\ Len(activeLegendTypes) > 0
    /\ \E k \in Range(nodesRef) :
           /\ heap[k].type # CORE
           /\ NodeOpacity(heap[k], activeLegendTypes, filterUnvisited) = 100
           /\ Interactive(k)
    /\ \E k \in Range(nodesRef) :
           /\ heap[k].type # CORE
           /\ NodeOpacity(heap[k], activeLegendTypes, filterUnvisited) = 10
           /\ ~Interactive(k)

\* the opacity the filter effect gives the engine's link l
RenderedLinkOpacity(l) ==
    LinkOpacity(heap[l.source.ref], heap[l.target.ref],
                activeLegendTypes, filterUnvisited)

(* C9: link visibility rule.  In every state, every link of the simulation *)
(* has the low opacity if at least one of its two endpoints fails the node *)
(* match rule, and the normal opacity if both match; with no filter active *)
(* it has the normal opacity.                                              *)
C9_LinkVisibilityRule ==
    mounted =>
        \A i \in DOMAIN linksRef :
            LET l == linksRef[i]
                s == heap[l.source.ref]
                t == heap[l.target.ref]
            IN  /\ RenderedLinkOpacity(l)
                       = IF ~MatchRule(s) \/ ~MatchRule(t) THEN 10 ELSE 60
                /\ (Len(activeLegendTypes) = 0 /\ ~filterUnvisited)
                       => RenderedLinkOpacity(l) = 60

\* under an active filter, one link with both endpoints matching is at the
\* normal opacity and one with a single failing endpoint is at the low one
C9_Witness ==
    /\ mounted /\ (Len(activeLegendTypes) > 0 \/ filterUnvisited)
    /\ \E i \in DOMAIN linksRef :
           /\ MatchRule(heap[linksRef[i].source.ref])
           /\ MatchRule(heap[linksRef[i].target.ref])
           /\ RenderedLinkOpacity(linksRef[i]) = 60
    /\ \E i \in DOMAIN linksRef :
           /\ MatchRule(heap[linksRef[i].source.ref])
                  # MatchRule(heap[linksRef[i].target.ref])
           /\ RenderedLinkOpacity(linksRef[i]) = 10

(* C10: filter purity.  A change of the filter state (a category toggled,  *)
(* unvisited-only toggled, reset) changes neither the graph (nodes, links, *)
(* every node's category, visited flag and position) nor the engine's node *)
(* objects (category, visited, position, pin), its node and link arrays,   *)
(* or the solver's alpha, alpha target and running state.                  *)
C10_FilterPurity ==
    [][ lastOp' \in FilterOps =>
            UNCHANGED << graphData, heap, nodesRef, linksRef, alpha, alphaTarget,
                         running, mounted >>
      ]_vars

\* a filter change made after the solver has cooled below alpha 1, on a graph
\* with a visited legend node
C10_Witness ==
    /\ lastOp \in FilterOps /\ mounted
    /\ alpha < AlphaOne
    /\ \E k \in Range(nodesRef) : heap[k].type # CORE /\ heap[k].visited
    /\ Len(linksRef) > 0

(* C11: no merge raises.  After every merge (initial query or expansion),  *)
(* whatever the fragment held, the component is still mounted (no          *)
(* exception left the application merge or the engine merge), the engine's *)
(* node array and link array are those of the merged graph, and alpha has  *)
(* been reset to 1.                                                        *)
C11_MergeNeverRaises ==
    lastOp \in MergeOps =>
        /\ mounted
        /\ [ i \in DOMAIN nodesRef |-> heap[nodesRef[i]].id ]
               = [ i \in DOMAIN graphData.nodes |-> graphData.nodes[i].id ]
        /\ Len(linksRef) = Len(graphData.links)
        /\ alpha = AlphaOne

\* the ends of a request that brought no node/link collection
FailedOps == { "reject", "malformed" }

(* C12: a malformed fragment is a no-op.  When a request ends without a    *)
(* valid node/link collection (the request failed, the text was not JSON,  *)
(* or the parsed value has no nodes or no links array), the graph is as it *)
(* was before and the component is still mounted: no error left the        *)
(* handler or the state update.                                            *)
C12_MalformedNoOp ==
    [][ lastOp' \in FailedOps => graphData' = graphData /\ mounted' ]_vars

(* C13: a tick never observes a partly applied merge.  Whenever a tick can *)
(* run (the simulation is mounted and its timer is scheduled), the         *)
(* solver's node array and link array are those one merge built from the   *)
(* graph of the last commit (one node object per graph node, in order, and *)
(* one link per graph link), and every link of the link force has both     *)
(* endpoints resolved to node objects of the solver's current node array.  *)
C13_TickSeesWholeMerge ==
    (mounted /\ running) =>
        /\ [ i \in DOMAIN nodesRef |-> heap[nodesRef[i]].id ]
               = [ i \in DOMAIN graphData.nodes |-> graphData.nodes[i].id ]
        /\ Len(linksRef) = Len(graphData.links)
        /\ \A i \in DOMAIN linksRef :
               /\ IsObject(linksRef[i].source) /\ IsObject(linksRef[i].target)
               /\ linksRef[i].source.ref \in Range(nodesRef)
               /\ linksRef[i].target.ref \in Range(nodesRef)

\* a tick has run on a graph with links after a click merged into the
\* engine that an initial query had filled
C13_Witness ==
    /\ lastOp = "tick" /\ mounted /\ running
    /\ Len(linksRef) > 0
    /\ \E k \in Range(nodesRef) : heap[k].type # CORE /\ heap[k].visited

\* half the width of the jitter interval, (Math.random() - 0.5) * 50
JitterRadius == 25

Abs(n) == IF n < 0 THEN -n ELSE n

(* C14: seeding.  Every node object that a merge creates in the engine     *)
(* starts within 25 px of the viewport centre of that merge in x and in y  *)
(* (width/2, height/2 of the commit that runs the merge), and without a    *)
(* pin; this holds for the root too, whatever x, y its incoming object     *)
(* carried.                                                                *)
C14_SeededNearCenter ==
    [][ lastOp' \in EngineMergeOps =>
            \A k \in (DOMAIN heap') \ (DOMAIN heap) :
                /\ Abs(heap'[k].x - (dimensions'.width \div 2)) <= JitterRadius
                /\ Abs(heap'[k].y - (dimensions'.height \div 2)) <= JitterRadius
                /\ heap'[k].fx = Null /\ heap'[k].fy = Null
      ]_vars

\* the root, requested in one viewport (and carrying its centre) and merged
\* after a resize, has been seeded around the centre of the new viewport
C14_Witness ==
    /\ lastOp = "initial" /\ mounted
    /\ dimensions # InitialViewport
    /\ \E i \in DOMAIN graphData.nodes :
           /\ graphData.nodes[i].id = RootId
           /\ graphData.nodes[i].x = Some(InitialViewport.width \div 2)
    /\ \E k \in Range(nodesRef) :
           /\ heap[k].id = RootId
           /\ heap[k].x # InitialViewport.width \div 2
           /\ Abs(heap[k].x - (dimensions.width \div 2)) <= JitterRadius

\* the fragments of n nodes with distinct ids and no links
PlainFragments ==
    { f \in Fragments :
        /\ Len(f.links) = 0
        /\ \A i, j \in DOMAIN f.nodes : f.nodes[i].id = f.nodes[j].id => i = j }

(* C15: end-to-end first merge.  When an initial query resolves against an *)
(* empty graph with a fragment of n nodes with distinct ids and no links,  *)
(* the graph has exactly n + 1 nodes, the CORE root (visited) followed by  *)
(* the fragment's nodes, and exactly n links, the i-th from the root to    *)
(* the i-th fragment node; the engine holds n + 1 nodes and n links, and   *)
(* no node has a pin.                                                      *)
C15_FirstMerge ==
    [][ (lastOp' = "initial" /\ Len(graphData.nodes) = 0) =>
            \A f \in PlainFragments :
                graphData' = HandleInitialQueryMerge(graphData,
                                 WithRoot(f, request.empty, request.dims))
                => LET n == Len(f.nodes)
                       g == graphData'
                   IN  /\ Len(g.nodes) = n + 1 /\ Len(g.links) = n
                       /\ g.nodes[1].id = RootId /\ g.nodes[1].type = CORE
                       /\ g.nodes[1].visited
                       /\ \A i \in 1..n :
                              /\ g.nodes[i + 1] = f.nodes[i]
                              /\ g.links[i].source = RootId
                              /\ g.links[i].target = f.nodes[i].id
                       /\ Len(nodesRef') = n + 1 /\ Len(linksRef') = n
                       /\ \A k \in Range(nodesRef') :
                              heap'[k].fx = Null /\ heap'[k].fy = Null
      ]_vars

\* a first query has resolved with two nodes of distinct ids and no links:
\* three nodes, two links from the root
C15_Witness ==
    /\ lastOp = "initial" /\ mounted
    /\ Len(graphData.nodes) = 3 /\ Len(graphData.links) = 2
    /\ graphData.nodes[2].id # graphData.nodes[3].id
    /\ \A i \in DOMAIN graphData.links :
           /\ graphData.links[i].source = RootId
           /\ graphData.links[i].relation = "origin"
           /\ graphData.links[i].target = graphData.nodes[i + 1].id

\* C16: a drag start pins the node where it stands (fx = x, fy = y) and, when
\* no other gesture is in progress, sets the alpha target to 0.3 and restarts
\* the solver; for as long as a gesture lasts the solver keeps ticking, its
\* alpha never below the stop threshold after a tick.
C16_DragKeepsTicking ==
    [][ /\ lastOp' = "dragstart" =>
            \A h \in dragging' \ dragging :
                /\ heap'[h].fx = Some(heap[h].x)
                /\ heap'[h].fy = Some(heap[h].y)
                /\ dragging = {} => (alphaTarget' = DragAlphaTarget /\ running')
        /\ (mounted' /\ dragging' # {}) =>
                /\ running'
                /\ lastOp' = "tick" => alpha' >= AlphaMin ]_vars

\* C17: a drag end clears the pin of the dragged node (fx = fy = null) and,
\* once no gesture remains, leaves the alpha target at 0; from there, unless a
\* merge or a new drag comes first, alpha falls below alphaMin and the solver
\* stops.
C17_DragEndCools ==
    /\ [][ lastOp' = "dragend" =>
            /\ \A h \in dragging \ dragging' :
                   heap'[h].fx = Null /\ heap'[h].fy = Null
            /\ dragging' = {} => alphaTarget' = 0 ]_vars
    /\ (lastOp = "dragend" /\ dragging = {})
           ~> \/ ~running /\ alpha < AlphaMin
              \/ lastOp \in EngineMergeOps \cup { "dragstart" }

C17_Witness ==
    /\ lastOp = "dragend" /\ mounted /\ running /\ alpha > DragAlphaTarget
    /\ dragging = {} /\ alphaTarget = 0
    /\ \E h \in Range(nodesRef), p \in Pointers :
           /\ heap[h].fx = Null /\ heap[h].fy = Null
           /\ heap[h].x = p.x /\ heap[h].y = p.y

\* C18: node id uniqueness.  In every reachable state no two nodes of the
\* graph carry the same id, whatever ids the fragments repeated.
C18_UniqueNodeIds ==
    \A i, j \in DOMAIN graphData.nodes :
        graphData.nodes[i].id = graphData.nodes[j].id => i = j

\* C19: link uniqueness.  In every reachable state no two links of the graph
\* have the same ordered (source, target) pair.
C19_UniqueLinks ==
    \A i, j \in DOMAIN graphData.links :
        ( /\ graphData.links[i].source = graphData.links[j].source
          /\ graphData.links[i].target = graphData.links[j].target ) => i = j

\* the graph's node sequence by id and link sequence by (source, target)
NodeIdSeq(g) == [ i \in DOMAIN g.nodes |-> g.nodes[i].id ]
LinkEndSeq(g) == [ i \in DOMAIN g.links |-> << g.links[i].source, g.links[i].target >> ]
IsPrefix(s, t) == Len(s) <= Len(t) /\ SubSeq(t, 1, Len(s)) = s

GraphOps == { "initial", "expand", "startExpand", "click" }

\* C20: nodes and links are never deleted or reordered.  After an initial
\* query, an expansion or a node click the previous node sequence (by id) is a
\* prefix of the new one, and the previous link sequence (by source and target
\* id) is a prefix of the new one.
C20_AppendOnly ==
    [][ lastOp' \in GraphOps =>
            /\ IsPrefix(NodeIdSeq(graphData), NodeIdSeq(graphData'))
            /\ IsPrefix(LinkEndSeq(graphData), LinkEndSeq(graphData')) ]_vars

C20_Witness ==
    /\ lastOp = "expand" /\ mounted
    /\ NodeIdSeq(graphData) = << RootId, "a", "a-a" >>
    /\ graphData.nodes[2].visited /\ ~graphData.nodes[3].visited
    /\ LinkEndSeq(graphData) = << << RootId, "a" >>, << "a", "a-a" >> >>

\* the positions of the graph's nodes joined to position i by links taken in
\* either direction (the connected cluster of node i)
Adjacent(g, i, j) ==
    \E k \in DOMAIN g.links :
        \/ g.links[k].source = g.nodes[i].id /\ g.links[k].target = g.nodes[j].id
        \/ g.links[k].source = g.nodes[j].id /\ g.links[k].target = g.nodes[i].id

RECURSIVE Grow(_, _)
Grow(g, S) ==
    LET T == S \cup { j \in DOMAIN g.nodes : \E i \in S : Adjacent(g, i, j) }
    IN  IF T = S THEN S ELSE Grow(g, T)

Cluster(g, i) == Grow(g, { i })

CoreAt(g) == { i \in DOMAIN g.nodes : g.nodes[i].type = CORE }

\* C21: every connected cluster of the graph holds at most one CORE node, and
\* a CORE node enters the graph only through an initial query that was
\* started while the graph was empty.
C21_OneRootPerCluster ==
    /\ [](\A i \in DOMAIN graphData.nodes :
             Cardinality(Cluster(graphData, i) \cap CoreAt(graphData)) <= 1)
    /\ [][ Cardinality(CoreAt(graphData')) > Cardinality(CoreAt(graphData)) =>
             /\ lastOp' = "initial"
             /\ request.kind = "initial" /\ request.empty
             /\ Len(graphData.nodes) = 0 ]_vars

C21_Witness ==
    /\ lastOp = "initial" /\ mounted
    /\ NodeIdSeq(graphData) = << RootId, "a", "a-a" >>
    /\ CoreAt(graphData) = { 1 }
    /\ Cluster(graphData, 1) = { 1, 2 }
    /\ Cluster(graphData, 3) = { 3 }

\* an existing link of g with the source id and the target id of l
SamePair(g, l) ==
    \E k \in DOMAIN g.links :
        g.links[k].source = l.source /\ g.links[k].target = l.target

\* C22: link identity.  An initial query on a graph that is not empty drops an
\* incoming link iff the graph holds a link with the same source id and the
\* same target id, and after a completed engine merge every engine link has
\* the source id and the target id of the graph link at its position (no
\* graph link is mapped onto the engine object of a link between other ids).
C22_LinkIdentity ==
    [][ /\ (lastOp' = "initial" /\ ~request.empty) =>
               \A data \in Fragments :
                   graphData' = HandleInitialQueryMerge(graphData, data) =>
                       \A i \in DOMAIN data.links :
                           SamePair(graphData, data.links[i])
                               <=> Len(graphData'.links) = Len(graphData.links)
        /\ (lastOp' \in EngineMergeOps /\ mounted') =>
               \A i \in DOMAIN linksRef' :
                   /\ heap'[linksRef'[i].source.ref].id = graphData'.links[i].source
                   /\ heap'[linksRef'[i].target.ref].id = graphData'.links[i].target ]_vars

\* what a node is apart from its position: id, category (standing for the
\* label and the payload fields as well) and visited flag
Content(n) == << n.id, n.type, n.visited >>

CountId(nodes, id) == Cardinality({ i \in DOMAIN nodes : nodes[i].id = id })

\* C23: first occurrence wins.  When a response holds a node whose id is
\* already in the graph, the merge adds no node of that id, every node of the
\* graph stays as it was, and every node the engine held keeps its id,
\* category and visited flag.
C23_FirstOccurrenceWins ==
    [][ (lastOp' \in MergeOps /\ mounted') =>
            \A id \in NodeIds(graphData.nodes) :
                ( \E data \in Fragments :
                      /\ id \in NodeIds(data.nodes)
                      /\ graphData' = IF lastOp' = "initial"
                                      THEN HandleInitialQueryMerge(graphData, data)
                                      ELSE ExpandNodeMerge(graphData, data) )
                => /\ CountId(graphData'.nodes, id) = CountId(graphData.nodes, id)
                   /\ SubSeq(graphData'.nodes, 1, Len(graphData.nodes)) = graphData.nodes
                   /\ \A i \in DOMAIN nodesRef :
                          Content(heap'[nodesRef'[i]]) = Content(heap[nodesRef[i]]) ]_vars

StartOps == { "startInitial", "startExpand" }

\* C24: at most one generation request is in flight.  loading is true exactly
\* while a request is in flight, a request is started only while loading is
\* false and none is in flight, and a response is merged only for the request
\* in flight, which it ends.
C24_OneRequestInFlight ==
    /\ [](mounted => (loading <=> request.kind # "none"))
    /\ [][ /\ lastOp' \in StartOps =>
                 /\ ~loading /\ request.kind = "none"
                 /\ loading' /\ request'.kind = (IF lastOp' = "startInitial"
                                                   THEN "initial" ELSE "expand")
           /\ lastOp' \in MergeOps =>
                 /\ loading /\ request.kind = lastOp'
                 /\ request'.kind = "none" ]_vars

C24_Witness ==
    /\ mounted /\ loading /\ request.kind = "expand"
    /\ lastOp = "click" /\ selectedNode # Null
    /\ \E i \in DOMAIN graphData.nodes :
           graphData.nodes[i].id = selectedNode[1] /\ graphData.nodes[i].type # CORE

\* C25: a click during a request is never lost.  A click made while a request
\* is in flight leaves the clicked node visited and changes nothing else of the
\* graph; the merge of the response acts on the graph as the clicks left it:
\* every node keeps its visited flag and the nodes and links the updater
\* accepts are appended.
C25_ClickNotLost ==
    [][ /\ (lastOp' = "click" /\ loading) =>
              /\ \A i \in DOMAIN graphData'.nodes :
                     graphData'.nodes[i].id = selectedNode'[1] => graphData'.nodes[i].visited
              /\ graphData' = [ graphData EXCEPT !.nodes = MarkVisited(@, selectedNode'[1]) ]
        /\ lastOp' \in MergeOps =>
              /\ SubSeq(graphData'.nodes, 1, Len(graphData.nodes)) = graphData.nodes
              /\ SubSeq(graphData'.links, 1, Len(graphData.links)) = graphData.links
              /\ \E data \in Fragments :
                     graphData' = IF lastOp' = "initial"
                                  THEN HandleInitialQueryMerge(graphData,
                                           WithRoot(data, request.empty, request.dims))
                                  ELSE ExpandNodeMerge(graphData, data) ]_vars

\* a node selected at the end of an initial query was clicked during it
\* (the query cleared the selection when it started)
C25_Witness ==
    /\ lastOp = "initial" /\ mounted /\ selectedNode = Some("a")
    /\ NodeIdSeq(graphData) = << RootId, "a", "a-a" >>
    /\ graphData.nodes[2].visited /\ ~graphData.nodes[3].visited

CompletionOps == MergeOps \cup FailedOps

\* C26: every started request ends with loading = false.  Starting a request
\* sets loading, loading falls only when the request completes (merged,
\* failed or malformed), every completion leaves it false, and a request that
\* completes does so eventually.
C26_LoadingEnds ==
    /\ [][ /\ lastOp' \in StartOps => loading'
           /\ (loading /\ ~loading') => lastOp' \in CompletionOps
           /\ lastOp' \in CompletionOps => (loading /\ ~loading') ]_vars
    /\ (mounted /\ loading) ~> ~loading

C26_Witness ==
    /\ lastOp = "malformed" /\ mounted /\ ~loading
    /\ request = NoRequest /\ Len(graphData.nodes) = 0

Pinned(d) == d.fx # Null \/ d.fy # Null

DragOps == { "dragstart", "drag", "dragend" }

\* C27: a node is pinned only while a drag gesture on it is active.  In every
\* state of the mounted application every pinned node is being dragged (so
\* with no gesture active no node is pinned), and a step that is not a drag event (a merge, a tick, a click, a
\* filter change, a resize) leaves the pin of every node as it was and
\* creates nodes without a pin.
C27_PinOnlyWhileDragged ==
    /\ [](mounted => \A h \in DOMAIN heap : Pinned(heap[h]) => h \in dragging)
    /\ [][ (lastOp' \notin DragOps /\ mounted') =>
              /\ \A h \in DOMAIN heap :
                     heap'[h].fx = heap[h].fx /\ heap'[h].fy = heap[h].fy
              /\ \A h \in (DOMAIN heap') \ (DOMAIN heap) : ~Pinned(heap'[h]) ]_vars

\* a filter change while a node is held: the held node is pinned at the
\* pointer, the other nodes are free
C27_Witness ==
    /\ mounted /\ lastOp = "toggleUnvisited" /\ Len(nodesRef) = 2
    /\ \E h \in dragging, p \in Pointers :
           /\ heap[h].fx = Some(p.x) /\ heap[h].fy = Some(p.y)
           /\ \A k \in Range(nodesRef) \ { h } : ~Pinned(heap[k])

\* C28: the engine mirrors the graph.  After every completed engine merge the
\* engine's node array has the ids and the visited flags of the graph's nodes,
\* position by position, and the engine's link array has the source and target
\* ids of the graph's links, position by position.
C28_EngineMirrorsGraph ==
    (lastOp \in EngineMergeOps /\ mounted) =>
        /\ Len(nodesRef) = Len(graphData.nodes)
        /\ \A i \in DOMAIN nodesRef :
               /\ heap[nodesRef[i]].id = graphData.nodes[i].id
               /\ heap[nodesRef[i]].visited = graphData.nodes[i].visited
        /\ Len(linksRef) = Len(graphData.links)
        /\ \A i \in DOMAIN linksRef :
               /\ heap[linksRef[i].source.ref].id = graphData.links[i].source
               /\ heap[linksRef[i].target.ref].id = graphData.links[i].target

\* C29: the root under a filter.  Whenever a filter is active the CORE node is
\* dimmed and takes no pointer events, and every link that touches it has the
\* low opacity; the active categories never hold CORE and never hold a
\* category twice.
C29_RootFailsFilters ==
    mounted =>
        /\ (Len(activeLegendTypes) > 0 \/ filterUnvisited) =>
              /\ \A k \in Range(nodesRef) :
                     heap[k].type = CORE =>
                         /\ ~MatchRule(heap[k])
                         /\ NodeOpacity(heap[k], activeLegendTypes, filterUnvisited) = 10
                         /\ NodePointerEvents(heap[k], activeLegendTypes, filterUnvisited) = "none"
                         /\ ~Interactive(k)
              /\ \A i \in DOMAIN linksRef :
                     ( \/ heap[linksRef[i].source.ref].type = CORE
                       \/ heap[linksRef[i].target.ref].type = CORE )
                     => RenderedLinkOpacity(linksRef[i]) = 10
        /\ ~Includes(activeLegendTypes, CORE)
        /\ \A i, j \in DOMAIN activeLegendTypes :
               activeLegendTypes[i] = activeLegendTypes[j] => i = j

\* only the unvisited filter is on, the root is linked to an unvisited node:
\* the node matches, the root does not, the link between them is dimmed
C29_Witness ==
    /\ mounted /\ lastOp \in FilterOps
    /\ filterUnvisited /\ Len(activeLegendTypes) = 0
    /\ \E i \in DOMAIN linksRef :
           /\ heap[linksRef[i].source.ref].type = CORE
           /\ MatchRule(heap[linksRef[i].target.ref])
           /\ RenderedLinkOpacity(linksRef[i]) = 10

\* the target of the centering force is the center of the viewport the engine
\* was created in, and a node created by a merge is seeded around the center
\* of the viewport of that merge
CenterKept ==
    /\ forceCenter' = forceCenter
    /\ forceCenter' = [ x |-> InitialViewport.width \div 2,
                        y |-> InitialViewport.height \div 2 ]

SeededAtViewport ==
    \A h \in (DOMAIN heap') \ (DOMAIN heap) :
        /\ Abs(heap'[h].x - (dimensions'.width \div 2)) <= JitterRadius
        /\ Abs(heap'[h].y - (dimensions'.height \div 2)) <= JitterRadius

====
